---- MODULE Spec2Model ----
(***************************************************************************)
(* codesync: the two HTTP handlers of the repository.                      *)
(*                                                                         *)
(*   /api/refresh-stats  (src/api/refresh-stats.js and its later revision  *)
(*                        src/unnamed/part_000): authenticate, load the    *)
(*                        profile, fan out to the platform adapters, join  *)
(*                        with Promise.allSettled, merge, persist, respond *)
(*   /api/get-score      (src/api/get-score.js): one adapter per request   *)
(*                                                                         *)
(* An async handler is cut at its awaits: one action per synchronous       *)
(* segment, one per settling of an awaited promise.                        *)
(***************************************************************************)
EXTENDS Integers, Sequences, FiniteSets, TLC

VARIABLES
    handlerFile,   \* which revision of the refresh handler is deployed
    snapshotApi,   \* how the snapshot returned by userDocRef.get() exposes `exists`
    store,         \* the Firestore document users/{uid}
    active,        \* the requests that are issued in this run
    req,           \* req[r]: the incoming request (method, headers, query)
    pc,            \* pc[r]: the await the handler of r is suspended at
    decodedUid,    \* decodedToken.uid
    userData,      \* docSnap.data()
    calls,         \* calls[r][p]: the promise of platform p's adapter call
    completion,    \* the platforms of r in the order their calls settled
    newStats,      \* the aggregate built by the merge
    trace,         \* what the handler of r has done so far (reads, writes, ...)
    response       \* response[r]: status, body and headers sent

vars == <<handlerFile, snapshotApi, store, active, req, pc, decodedUid, userData,
          calls, completion, newStats, trace, response>>

-----------------------------------------------------------------------------
(* JavaScript values *)

Undefined == "<undefined>"

\* a value is truthy unless it is undefined or the empty string
Truthy(v) == v \notin {Undefined, ""}

\* {}
EmptyObj == [k \in {} |-> ""]

\* { k: v }
Obj(k, v) == [x \in {k} |-> v]

\* Object.assign(target, source)
ObjectAssign(target, source) ==
    [k \in (DOMAIN target) \cup (DOMAIN source) |->
        IF k \in DOMAIN source THEN source[k] ELSE target[k]]

-----------------------------------------------------------------------------
(* The platforms and their adapters *)

Platforms == {"leetcode", "codechef", "hackerrank", "gfg"}

\* the order in which the refresh handler pushes the adapter calls
InvocationOrder == <<"leetcode", "codechef", "hackerrank", "gfg">>

\* What the upstream site answers to the adapter's one request:
\*   netError  axios rejects (network error, non-2xx)
\*   errors    LeetCode GraphQL payload with an `errors` member
\*   malformed LeetCode payload without errors whose matchedUser is null
\*   ok, page  the expected payload / profile page
\*   blank     a page on which none of the selectors match
\*   noScript  a GfG page without the profile_user_stats script
\*   badJson   a GfG page whose embedded user_profile_data is not valid JSON
UpstreamOutcomes(p) ==
    CASE p = "leetcode" -> {"netError", "errors", "malformed", "ok"}
      [] p = "gfg"      -> {"netError", "page", "noScript", "badJson"}
      [] OTHER          -> {"netError", "page", "blank"}

\* the settled outcome of an async adapter function
Throws == [threw |-> TRUE, isNull |-> FALSE, value |-> EmptyObj]
ReturnsNull == [threw |-> FALSE, isNull |-> TRUE, value |-> EmptyObj]
Returns(v) == [threw |-> FALSE, isNull |-> FALSE, value |-> v]

\* the flat record of get-score.js's getGfgStats
GfgFlat(total, counts) ==
    [username |-> "input", totalProblemsSolved |-> total,
     easyProblems |-> counts, mediumProblems |-> counts, hardProblems |-> counts]

\* LookupAdapter with the adapters of part_000, which return null on a failure
LookupAdapterSoft(p, up) ==
    IF up \in {"netError", "errors", "malformed"} THEN ReturnsNull
    ELSE Returns(Obj(p, "scraped"))

\* get-score.js: the adapters throw on every failure, except that getGfgStats
\* catches the exception of parsing the embedded JSON and keeps the zeros
LookupAdapter(p, up) ==
    CASE p = "leetcode" ->
            IF up = "netError" THEN Throws
            ELSE IF up = "errors" THEN Throws
            ELSE IF up = "malformed" THEN Throws
            ELSE Returns(Obj("leetcode", "scraped"))
      [] p = "codechef" ->
            IF up = "netError" THEN Throws
            ELSE Returns(Obj("codechef", IF up = "blank" THEN "defaults" ELSE "scraped"))
      [] p = "hackerrank" ->
            IF up = "netError" THEN Throws
            ELSE Returns(Obj("hackerrank", IF up = "blank" THEN "defaults" ELSE "scraped"))
      [] OTHER ->
            IF up = "netError" THEN Throws
            ELSE IF up = "noScript" THEN Returns(GfgFlat("scraped", "zero"))
            ELSE IF up = "badJson" THEN Returns(GfgFlat("scraped", "zero"))
            ELSE Returns(GfgFlat("scraped", "scraped"))

\* refresh-stats.js: the adapters are not wrapped; the LeetCode adapter returns
\* null on an error payload and getGfgStats does not catch JSON.parse
RefreshAdapterV1(p, up) ==
    CASE p = "leetcode" ->
            IF up = "netError" THEN Throws
            ELSE IF up = "errors" THEN ReturnsNull
            ELSE IF up = "malformed" THEN Throws
            ELSE Returns(Obj("leetcode", "scraped"))
      [] p = "codechef" ->
            IF up = "netError" THEN Throws
            ELSE Returns(Obj("codechef", IF up = "blank" THEN "defaults" ELSE "scraped"))
      [] p = "hackerrank" ->
            IF up = "netError" THEN Throws
            ELSE Returns(Obj("hackerrank", IF up = "blank" THEN "defaults" ELSE "scraped"))
      [] OTHER ->
            IF up = "netError" THEN Throws
            ELSE IF up = "badJson" THEN Throws
            ELSE Returns(Obj("gfg", IF up = "noScript" THEN "defaults" ELSE "scraped"))

\* part_000: every adapter body is wrapped in try/catch and returns null
RefreshAdapterV2(p, up) ==
    CASE p = "leetcode" ->
            IF up \in {"netError", "errors", "malformed"} THEN ReturnsNull
            ELSE Returns(Obj("leetcode", "scraped"))
      [] p = "codechef" ->
            IF up = "netError" THEN ReturnsNull
            ELSE Returns(Obj("codechef", IF up = "blank" THEN "defaults" ELSE "scraped"))
      [] p = "hackerrank" ->
            IF up = "netError" THEN ReturnsNull
            ELSE Returns(Obj("hackerrank", IF up = "blank" THEN "defaults" ELSE "scraped"))
      [] OTHER ->
            IF up = "netError" THEN ReturnsNull
            ELSE IF up = "badJson" THEN Returns(Obj("gfg", "partial"))
            ELSE Returns(Obj("gfg", IF up = "noScript" THEN "defaults" ELSE "scraped"))

RefreshFiles == {"refresh-stats.js", "part_000"}

RefreshAdapter(file, p, up) ==
    IF file = "refresh-stats.js" THEN RefreshAdapterV1(p, up) ELSE RefreshAdapterV2(p, up)

-----------------------------------------------------------------------------
(* The requests *)

Requests == {"r1", "r2"}

\* the Authorization header as the text before the token and the token;
\* <<>> is an absent (or empty) header
Headers ==
    { <<>>, <<"Basic ", "good">>, <<"bearer ", "good">>, <<"Bearer ">>,
      <<"Bearer ", "good">>, <<"Bearer ", "expired">> }

\* a query parameter: absent, a string, or an array (a repeated parameter)
QUndefined == [type |-> "undefined", s |-> ""]
QString(s) == [type |-> "string", s |-> s]
QArray == [type |-> "array", s |-> "leetcode,gfg"]

QueryTruthy(q) == q.type = "array" \/ (q.type = "string" /\ q.s # "")

PlatformParams ==
    {QUndefined, QArray} \cup
    {QString(s) : s \in Platforms \cup {"", "LeetCode", "GFG", "foo"}}

UsernameParams == {QUndefined, QString(""), QString("alice")}

RefreshRequests ==
    [endpoint : {"refresh"}, method : {"POST", "GET"}, authorization : Headers,
     platform : {QUndefined}, username : {QUndefined}]

LookupRequests ==
    [endpoint : {"get-score"}, method : {"GET"}, authorization : {<<>>},
     platform : PlatformParams, username : UsernameParams]

NoRequest ==
    [endpoint |-> "none", method |-> "GET", authorization |-> <<>>,
     platform |-> QUndefined, username |-> QUndefined]

\* String.prototype.toLowerCase on the platform names that are sent
ToLowerCase(s) ==
    CASE s = "LeetCode" -> "leetcode"
      [] s = "GFG"      -> "gfg"
      [] OTHER          -> s

-----------------------------------------------------------------------------
(* The profile store (Firestore, users/{uid}) *)

Names == {Undefined, "", "alice"}

\* a stored aggregate of an earlier refresh
OldStats == [p \in Platforms |-> "old"]

NoDoc ==
    [exists |-> FALSE, usernames |-> [p \in Platforms |-> Undefined],
     stats |-> EmptyObj, statsLastUpdatedAt |-> 0]

ProfileDocs ==
    [exists : {TRUE}, usernames : [Platforms -> Names],
     stats : {EmptyObj, OldStats}, statsLastUpdatedAt : {0}]

\* VerifyIdToken that resolves for every token
VerifyIdTokenAcceptsAll(idToken) == [ok |-> TRUE, uid |-> "u1"]

\* admin.auth().verifyIdToken(idToken): resolves with the decoded token of a
\* valid credential and rejects otherwise
VerifyIdToken(idToken) ==
    IF idToken = "good" THEN [ok |-> TRUE, uid |-> "u1"] ELSE [ok |-> FALSE, uid |-> ""]

-----------------------------------------------------------------------------
(* The promises of the adapter calls *)

NoCall == [state |-> "none", up |-> "none", isNull |-> FALSE, value |-> EmptyObj]

Pending(up) == [state |-> "pending", up |-> up, isNull |-> FALSE, value |-> EmptyObj]

\* the promise of an async function settles: rejected when the body threw,
\* fulfilled with the returned value otherwise
Settle(call, outcome) ==
    [state |-> IF outcome.threw THEN "rejected" ELSE "fulfilled",
     up |-> call.up, isNull |-> outcome.isNull, value |-> outcome.value]

Started(cs) == {p \in Platforms : cs[p].state # "none"}
Unsettled(cs) == {p \in Platforms : cs[p].state = "pending"}

NoTrace ==
    [reads |-> 0, snapshot |-> "none", updates |-> 0, updateArg |-> EmptyObj,
     updateResult |-> "none", pendingAtJoin |-> {}, netCalls |-> 0,
     steps |-> <<>>, adapterErrors |-> {}, mergeErrors |-> {},
     statsBefore |-> EmptyObj, writtenAt |-> 0]

NoResponse ==
    [sent |-> 0, status |-> 0, kind |-> "none", data |-> EmptyObj, cache |-> FALSE]

\* response.status(code).json(body)
Send(resp, code, kind, data) ==
    [resp EXCEPT !.sent = @ + 1, !.status = code, !.kind = kind, !.data = data]

Init ==
    /\ handlerFile \in RefreshFiles
    /\ snapshotApi \in {"accessor", "method"}
    /\ store \in {NoDoc} \cup ProfileDocs
    /\ active = {"r1"}
    /\ req \in {q \in [Requests -> RefreshRequests \cup LookupRequests \cup {NoRequest}] :
                  \A r \in Requests : (q[r] = NoRequest) <=> (r \notin active)}
    /\ pc = [r \in Requests |-> IF r \in active THEN "init" ELSE "idle"]
    /\ decodedUid = [r \in Requests |-> ""]
    /\ userData = [r \in Requests |-> NoDoc.usernames]
    /\ calls = [r \in Requests |-> [p \in Platforms |-> NoCall]]
    /\ completion = [r \in Requests |-> <<>>]
    /\ newStats = [r \in Requests |-> EmptyObj]
    /\ trace = [r \in Requests |-> NoTrace]
    /\ response = [r \in Requests |-> NoResponse]

-----------------------------------------------------------------------------
(* /api/refresh-stats *)

\* AuthHeaderOk without the startsWith test
AuthHeaderAnyScheme(authorization) == Len(authorization) >= 1

\* !authorization || !authorization.startsWith('Bearer ')  is false
AuthHeaderOk(authorization) ==
    Len(authorization) >= 1 /\ authorization[1] = "Bearer "

\* authorization.split('Bearer ')[1]
IdToken(authorization) ==
    IF Len(authorization) = 0 \/ authorization[1] # "Bearer " THEN Undefined
    ELSE IF Len(authorization) >= 2 THEN authorization[2]
    ELSE ""

\* the method check and the header check, up to the await of verifyIdToken
RefreshStart(r) ==
    /\ r \in active
    /\ pc[r] = "init"
    /\ req[r].endpoint = "refresh"
    /\ IF req[r].method # "POST"
         THEN /\ response' = [response EXCEPT ![r] = Send(@, 405, "error", EmptyObj)]
              /\ trace' = [trace EXCEPT ![r].steps = Append(@, "respond")]
              /\ pc' = [pc EXCEPT ![r] = "done"]
         ELSE IF ~AuthHeaderOk(req[r].authorization)
         THEN /\ response' = [response EXCEPT ![r] = Send(@, 401, "error", EmptyObj)]
              /\ trace' = [trace EXCEPT ![r].steps = Append(@, "respond")]
              /\ pc' = [pc EXCEPT ![r] = "done"]
         ELSE /\ pc' = [pc EXCEPT ![r] = "verifying"]
              /\ trace' = [trace EXCEPT ![r].steps = Append(@, "authenticate")]
              /\ UNCHANGED response
    /\ UNCHANGED <<handlerFile, snapshotApi, store, active, req, decodedUid, userData,
                   calls, completion, newStats>>

\* verifyIdToken settles; on success the handler goes on to userDocRef.get()
VerifyReturns(r) ==
    /\ pc[r] = "verifying"
    /\ LET decoded == VerifyIdToken(IdToken(req[r].authorization))
       IN  IF ~decoded.ok
             THEN /\ response' = [response EXCEPT ![r] = Send(@, 403, "error", EmptyObj)]
                  /\ pc' = [pc EXCEPT ![r] = "done"]
                  /\ trace' = [trace EXCEPT ![r].steps = Append(@, "respond")]
                  /\ UNCHANGED decodedUid
             ELSE /\ decodedUid' = [decodedUid EXCEPT ![r] = decoded.uid]
                  /\ trace' = [trace EXCEPT ![r].reads = @ + 1,
                                            ![r].steps = Append(@, "load")]
                  /\ pc' = [pc EXCEPT ![r] = "reading"]
                  /\ UNCHANGED response
    /\ UNCHANGED <<handlerFile, snapshotApi, store, active, req, userData,
                   calls, completion, newStats>>

\* The outcome of  docSnap.exists()  on the snapshot of document doc.  The
\* handler calls `exists` as a function.  db is admin.firestore(), and the
\* Admin SDK's DocumentSnapshot has `exists` as a boolean accessor: calling it
\* throws a TypeError.  On a snapshot that has `exists` as a method the call
\* returns whether the document exists.
ExistsCall(api, doc) ==
    IF api = "accessor" THEN [threw |-> TRUE, value |-> FALSE]
    ELSE [threw |-> FALSE, value |-> doc.exists]

\* ScrapePromises without the tests of the usernames
ScrapePromisesAll(data) == InvocationOrder

\* the platforms whose adapter is called, in the order of the pushes
ScrapePromises(data) ==
    SelectSeq(InvocationOrder, LAMBDA p : Truthy(data[p]))

Range(seq) == {seq[i] : i \in DOMAIN seq}

\* the upstream answers a started call can meet
Fates(startedSet) ==
    {f \in [Platforms -> {"none"} \cup UNION {UpstreamOutcomes(p) : p \in Platforms}] :
        \A p \in Platforms :
            IF p \in startedSet THEN f[p] \in UpstreamOutcomes(p) ELSE f[p] = "none"}

\* userDocRef.get() settles; the 404 check; the fan-out, up to the await of
\* Promise.allSettled
ReadReturns(r) ==
    /\ pc[r] = "reading"
    /\ \E getOk \in BOOLEAN :
         LET ex == ExistsCall(snapshotApi, store)
         IN  IF ~getOk \/ ex.threw
               THEN /\ trace' = [trace EXCEPT ![r].snapshot =
                                    IF ~getOk THEN "rejected" ELSE "typeError",
                                                 ![r].steps = Append(@, "respond")]
                    /\ response' = [response EXCEPT ![r] = Send(@, 500, "error", EmptyObj)]
                    /\ pc' = [pc EXCEPT ![r] = "done"]
                    /\ UNCHANGED <<userData, calls>>
               ELSE IF ~ex.value
               THEN /\ trace' = [trace EXCEPT ![r].snapshot = "absent",
                                                 ![r].steps = Append(@, "respond")]
                    /\ response' = [response EXCEPT ![r] = Send(@, 404, "error", EmptyObj)]
                    /\ pc' = [pc EXCEPT ![r] = "done"]
                    /\ UNCHANGED <<userData, calls>>
               ELSE /\ trace' = [trace EXCEPT ![r].snapshot = "found",
                                                 ![r].steps = Append(@, "fanout")]
                    /\ userData' = [userData EXCEPT ![r] = store.usernames]
                    /\ \E f \in Fates(Range(ScrapePromises(store.usernames))) :
                         calls' = [calls EXCEPT ![r] =
                                     [p \in Platforms |->
                                        IF f[p] = "none" THEN NoCall ELSE Pending(f[p])]]
                    /\ pc' = [pc EXCEPT ![r] = "joining"]
                    /\ UNCHANGED response
    /\ UNCHANGED <<handlerFile, snapshotApi, store, active, req, decodedUid,
                   completion, newStats>>

\* whether p's adapter itself writes to console.error on the upstream answer:
\* the adapters of refresh-stats.js never do; those of part_000 do in their
\* catch blocks and on a LeetCode error payload
AdapterLogs(file, p, up) ==
    /\ file = "part_000"
    /\ CASE p = "leetcode" -> up \in {"netError", "errors", "malformed"}
         [] p = "gfg"      -> up \in {"netError", "badJson"}
         [] OTHER          -> up = "netError"

\* one adapter call of the refresh fan-out settles
AdapterSettles(r, p) ==
    /\ req[r].endpoint = "refresh"
    /\ calls[r][p].state = "pending"
    /\ calls' = [calls EXCEPT ![r][p] =
                    Settle(@, RefreshAdapter(handlerFile, p, calls[r][p].up))]
    /\ completion' = [completion EXCEPT ![r] = Append(@, p)]
    /\ trace' = [trace EXCEPT ![r].adapterErrors =
                    IF AdapterLogs(handlerFile, p, calls[r][p].up) THEN @ \cup {p} ELSE @]
    /\ UNCHANGED <<handlerFile, snapshotApi, store, active, req, pc, decodedUid,
                   userData, newStats, response>>

\* JoinReady of a join that resolves with the first promise that settles
JoinReadyFirst(cs, promises) ==
    promises = <<>> \/ \E i \in DOMAIN promises : cs[promises[i]].state # "pending"

\* JoinReady of a handler that does not await the join
JoinReadyNoAwait(cs, promises) == TRUE

\* Promise.allSettled(scrapePromises) resolves once no promise is pending
JoinReady(cs, promises) ==
    \A i \in DOMAIN promises : cs[promises[i]].state # "pending"

\* Join with Promise.all: it rejects when one of the promises rejects
JoinAll(cs, promises) ==
    [rejected |-> \E i \in DOMAIN promises : cs[promises[i]].state = "rejected",
     results  |-> [i \in DOMAIN promises |->
                    [status |-> cs[promises[i]].state,
                     isNull |-> cs[promises[i]].isNull,
                     value  |-> cs[promises[i]].value]]]

\* the value of  await Promise.allSettled(scrapePromises): it never rejects and
\* lists the outcomes in the order of the promises
Join(cs, promises) ==
    [rejected |-> FALSE,
     results  |-> [i \in DOMAIN promises |->
                    [status |-> cs[promises[i]].state,
                     isNull |-> cs[promises[i]].isNull,
                     value  |-> cs[promises[i]].value]]]

\* Merge with  newStats = result.value  in place of Object.assign: only the
\* last successful result is kept
MergeKeepsLast(results) ==
    LET good == {i \in DOMAIN results :
                    results[i].status = "fulfilled" /\ ~results[i].isNull}
    IN  IF good = {} THEN EmptyObj
        ELSE results[CHOOSE i \in good : \A j \in good : j <= i].value

\* results.forEach: assign the value of every fulfilled, non-null result
RECURSIVE MergeFrom(_, _, _)
MergeFrom(results, i, acc) ==
    IF i > Len(results) THEN acc
    ELSE MergeFrom(results, i + 1,
            IF results[i].status = "fulfilled" /\ ~results[i].isNull
              THEN ObjectAssign(acc, results[i].value)
              ELSE acc)

Merge(results) == MergeFrom(results, 1, EmptyObj)

\* the promises for which results.forEach writes to console.error: none in
\* refresh-stats.js, the rejected ones in part_000
MergeLogs(file, cs, promises) ==
    IF file = "part_000"
      THEN {promises[i] : i \in {j \in DOMAIN promises : cs[promises[j]].state = "rejected"}}
      ELSE {}

\* the join resolves; the merge; userDocRef.update is called
JoinResolves(r) ==
    /\ pc[r] = "joining"
    /\ LET promises == ScrapePromises(userData[r])
       IN  /\ JoinReady(calls[r], promises)
           /\ LET j == Join(calls[r], promises)
              IN  IF j.rejected
                    THEN /\ response' = [response EXCEPT ![r] = Send(@, 500, "error", EmptyObj)]
                         /\ pc' = [pc EXCEPT ![r] = "done"]
                         /\ trace' = [trace EXCEPT ![r].steps = @ \o <<"join", "respond">>]
                         /\ UNCHANGED newStats
                    ELSE /\ newStats' = [newStats EXCEPT ![r] = Merge(j.results)]
                         /\ trace' = [trace EXCEPT ![r].updates = @ + 1,
                                                   ![r].updateArg = Merge(j.results),
                                                   ![r].updateResult = "pending",
                                                   ![r].pendingAtJoin = Unsettled(calls[r]),
                                                   ![r].mergeErrors =
                                                       MergeLogs(handlerFile, calls[r], promises),
                                                   ![r].steps =
                                                       @ \o <<"join", "merge", "persist">>]
                         /\ pc' = [pc EXCEPT ![r] = "writing"]
                         /\ UNCHANGED response
    /\ UNCHANGED <<handlerFile, snapshotApi, store, active, req, decodedUid, userData,
                   calls, completion>>

\* AfterUpdate of a handler that ignores the rejection of the write
AfterUpdateIgnoresFailure(updateOk) == [status |-> 200, kind |-> "success"]

\* what the handler answers once userDocRef.update has settled
AfterUpdate(updateOk) ==
    IF updateOk THEN [status |-> 200, kind |-> "success"]
    ELSE [status |-> 500, kind |-> "error"]

\* Update that merges the new stats into the stored ones, as
\* set(..., {merge: true}) would
UpdateMerging(doc, stats) ==
    [doc EXCEPT !.stats = ObjectAssign(@, stats), !.statsLastUpdatedAt = @ + 1]

\* Update that does not overwrite stats that were already refreshed
UpdateFirstWins(doc, stats) ==
    IF doc.statsLastUpdatedAt > 0
      THEN [doc EXCEPT !.statsLastUpdatedAt = @ + 1]
      ELSE [doc EXCEPT !.stats = stats, !.statsLastUpdatedAt = @ + 1]

\* userDocRef.update({stats: newStats, statsLastUpdatedAt: serverTimestamp()}):
\* the value of the stats field is replaced by the new object and the document
\* is stamped with the server's time (here the number of writes so far)
Update(doc, stats) ==
    [doc EXCEPT !.stats = stats, !.statsLastUpdatedAt = @ + 1]

\* userDocRef.update(...) settles: a write that succeeds is applied to the
\* document as one change
WriteReturns(r) ==
    /\ pc[r] = "writing"
    /\ \E updateOk \in BOOLEAN :
         /\ store' = IF updateOk THEN Update(store, trace[r].updateArg) ELSE store
         /\ trace' = [trace EXCEPT ![r].updateResult = IF updateOk THEN "ok" ELSE "failed",
                                   ![r].statsBefore = store.stats,
                                   ![r].writtenAt =
                                       IF updateOk THEN store.statsLastUpdatedAt + 1 ELSE @,
                                   ![r].steps = Append(@, "respond")]
         /\ response' = [response EXCEPT ![r] =
                           Send(@, AfterUpdate(updateOk).status, AfterUpdate(updateOk).kind,
                                EmptyObj)]
    /\ pc' = [pc EXCEPT ![r] = "done"]
    /\ UNCHANGED <<handlerFile, snapshotApi, active, req, decodedUid, userData,
                   calls, completion, newStats>>

-----------------------------------------------------------------------------
(* /api/get-score *)

\* the validation and the switch on platform.toLowerCase():
\*   "bad"    a parameter is missing            -> 400
\*   "throws" platform has no toLowerCase method -> TypeError, caught -> 500
\*   "nocase" the default case of the switch     -> 400
\*   "call"   the adapter of `platform` is called
Route(platform, username) ==
    IF ~QueryTruthy(platform) \/ ~QueryTruthy(username)
      THEN [to |-> "bad", platform |-> ""]
    ELSE IF platform.type # "string"
      THEN [to |-> "throws", platform |-> ""]
    ELSE IF ToLowerCase(platform.s) \in Platforms
      THEN [to |-> "call", platform |-> ToLowerCase(platform.s)]
    ELSE [to |-> "nocase", platform |-> ""]

\* the handler up to the await of the adapter call
LookupStart(r) ==
    /\ r \in active
    /\ pc[r] = "init"
    /\ req[r].endpoint = "get-score"
    /\ LET route == Route(req[r].platform, req[r].username)
       IN  CASE route.to = "call" ->
                  /\ \E up \in UpstreamOutcomes(route.platform) :
                       calls' = [calls EXCEPT ![r][route.platform] = Pending(up)]
                  /\ trace' = [trace EXCEPT ![r].netCalls = @ + 1]
                  /\ pc' = [pc EXCEPT ![r] = "fetching"]
                  /\ UNCHANGED response
             [] route.to = "throws" ->
                  /\ response' = [response EXCEPT ![r] = Send(@, 500, "error", EmptyObj)]
                  /\ pc' = [pc EXCEPT ![r] = "done"]
                  /\ UNCHANGED <<calls, trace>>
             [] OTHER ->
                  /\ response' = [response EXCEPT ![r] = Send(@, 400, "error", EmptyObj)]
                  /\ pc' = [pc EXCEPT ![r] = "done"]
                  /\ UNCHANGED <<calls, trace>>
    /\ UNCHANGED <<handlerFile, snapshotApi, store, active, req, decodedUid, userData,
                   completion, newStats>>

\* what the handler answers once the adapter call has settled: the catch
\* block answers 500, otherwise the data is sent with the caching header
AfterLookup(call) ==
    IF call.state = "rejected"
      THEN [status |-> 500, kind |-> "error", data |-> EmptyObj, cache |-> FALSE]
      ELSE [status |-> 200, kind |-> "data", data |-> call.value, cache |-> TRUE]

\* the adapter call settles and the handler responds
LookupReturns(r, p) ==
    /\ pc[r] = "fetching"
    /\ calls[r][p].state = "pending"
    /\ LET settled == Settle(calls[r][p], LookupAdapter(p, calls[r][p].up))
           answer == AfterLookup(settled)
       IN  /\ calls' = [calls EXCEPT ![r][p] = settled]
           /\ response' = [response EXCEPT ![r] =
                             [Send(@, answer.status, answer.kind, answer.data)
                                EXCEPT !.cache = answer.cache]]
    /\ completion' = [completion EXCEPT ![r] = Append(@, p)]
    /\ pc' = [pc EXCEPT ![r] = "done"]
    /\ UNCHANGED <<handlerFile, snapshotApi, store, active, req, decodedUid, userData,
                   newStats, trace>>

-----------------------------------------------------------------------------

Next ==
    \E r \in Requests :
        \/ RefreshStart(r)
        \/ VerifyReturns(r)
        \/ ReadReturns(r)
        \/ \E p \in Platforms : AdapterSettles(r, p)
        \/ JoinResolves(r)
        \/ WriteReturns(r)
        \/ LookupStart(r)
        \/ \E p \in Platforms : LookupReturns(r, p)

Spec == Init /\ [][Next]_vars

-----------------------------------------------------------------------------
(* Two refresh requests of the same identity that run concurrently *)

\* the platforms that are configured in the profiles of the concurrent runs
RacePlatforms == {"leetcode", "codechef"}

RaceProfiles ==
    {d \in ProfileDocs :
        \A p \in Platforms : p \notin RacePlatforms => d.usernames[p] = Undefined}

RaceRequest ==
    [endpoint |-> "refresh", method |-> "POST", authorization |-> <<"Bearer ", "good">>,
     platform |-> QUndefined, username |-> QUndefined]

InitRace ==
    /\ handlerFile \in RefreshFiles
    /\ snapshotApi \in {"accessor", "method"}
    /\ store \in RaceProfiles
    /\ active = Requests
    /\ req = [r \in Requests |-> RaceRequest]
    /\ pc = [r \in Requests |-> "init"]
    /\ decodedUid = [r \in Requests |-> ""]
    /\ userData = [r \in Requests |-> NoDoc.usernames]
    /\ calls = [r \in Requests |-> [p \in Platforms |-> NoCall]]
    /\ completion = [r \in Requests |-> <<>>]
    /\ newStats = [r \in Requests |-> EmptyObj]
    /\ trace = [r \in Requests |-> NoTrace]
    /\ response = [r \in Requests |-> NoResponse]

NextRefresh ==
    \E r \in Requests :
        \/ RefreshStart(r)
        \/ VerifyReturns(r)
        \/ ReadReturns(r)
        \/ \E p \in Platforms : AdapterSettles(r, p)
        \/ JoinResolves(r)
        \/ WriteReturns(r)

SpecRace == InitRace /\ [][NextRefresh]_vars

-----------------------------------------------------------------------------
(* Properties of the refresh workflow *)

IsRefresh(r) == req[r].endpoint = "refresh"
IsLookup(r) == req[r].endpoint = "get-score"

\* the platforms with a configured (truthy) username in the loaded profile
Configured(r) == {p \in Platforms : Truthy(userData[r][p])}

\* the platforms whose call is fulfilled with a record
Succeeded(r) ==
    {p \in Platforms : calls[r][p].state = "fulfilled" /\ ~calls[r][p].isNull}

\* C1: the aggregate handed to the profile write, and the stats stored by a
\* write that succeeded, have a key for platform p exactly when p has a
\* configured username and p's adapter call was fulfilled with a record; a
\* platform whose call was rejected or returned null has no key.
C1_AggregateKeys ==
    \A r \in Requests :
        (IsRefresh(r) /\ trace[r].updates > 0) =>
            /\ DOMAIN trace[r].updateArg = Configured(r) \cap Succeeded(r)
            /\ trace[r].updateResult = "ok" =>
                   DOMAIN store.stats = Configured(r) \cap Succeeded(r)

\* a write that succeeded after one call returned null, one was rejected, one
\* returned a record and one platform was not configured
C1_Witness ==
    /\ trace["r1"].updateResult = "ok"
    /\ calls["r1"]["leetcode"].state = "fulfilled" /\ calls["r1"]["leetcode"].isNull
    /\ calls["r1"]["codechef"].state = "rejected"
    /\ calls["r1"]["gfg"].state = "none"
    /\ DOMAIN store.stats = {"hackerrank"}

\* the aggregate that the profile and the upstream answers determine
ExpectedAggregate(file, data, cs) ==
    LET good == {p \in Platforms :
                    /\ Truthy(data[p])
                    /\ ~RefreshAdapter(file, p, cs[p].up).threw
                    /\ ~RefreshAdapter(file, p, cs[p].up).isNull}
    IN  [p \in good |-> RefreshAdapter(file, p, cs[p].up).value[p]]

\* C2: the aggregate is determined by the profile and by the outcome of each
\* adapter call: whatever the order in which the calls completed, it is the
\* aggregate of the calls' outcomes.
C2_OrderIndependent ==
    \A r \in Requests :
        (IsRefresh(r) /\ trace[r].updates > 0) =>
            trace[r].updateArg = ExpectedAggregate(handlerFile, userData[r], calls[r])

\* calls that completed in the reverse of the order they were started in, all
\* with a record, and the merge done
C2_Witness ==
    /\ completion["r1"] = <<"gfg", "hackerrank", "leetcode">>
    /\ trace["r1"].updates = 1
    /\ DOMAIN trace["r1"].updateArg = {"gfg", "hackerrank", "leetcode"}

\* every started call failed: rejected, or fulfilled with null
AllFailed(r) == Succeeded(r) = {}

\* C3: once the profile is loaded no adapter failure fails the request: the
\* handler always reaches the write, a write that succeeds is answered 200
\* success, and when every configured adapter failed the aggregate that is
\* persisted is empty.
C3_AdapterFailuresAbsorbed ==
    \A r \in Requests :
        (IsRefresh(r) /\ trace[r].snapshot = "found" /\ pc[r] = "done") =>
            /\ trace[r].updates = 1
            /\ trace[r].updateResult = "ok" =>
                   /\ response[r].status = 200
                   /\ response[r].kind = "success"
                   /\ AllFailed(r) => (trace[r].updateArg = EmptyObj /\ store.stats = EmptyObj)

\* three calls started and all rejected, the request answered 200
C3_Witness ==
    /\ pc["r1"] = "done"
    /\ \A p \in {"leetcode", "codechef", "gfg"} : calls["r1"][p].state = "rejected"
    /\ calls["r1"]["hackerrank"].state = "none"
    /\ response["r1"].status = 200
    /\ store.stats = EmptyObj

\* C4: when the write to the profile fails the request is answered 500 with
\* an error, never with the success acknowledgment, whatever the adapters
\* returned, and the stored document is as it was.
C4_WriteFailureIs500 ==
    \A r \in Requests :
        (IsRefresh(r) /\ trace[r].updateResult = "failed") =>
            /\ response[r].status = 500
            /\ response[r].kind = "error"
            /\ response[r].sent = 1
            /\ store.statsLastUpdatedAt = 0

\* the write failed after a merge that had a record to store
C4_Witness ==
    /\ trace["r1"].updateResult = "failed"
    /\ DOMAIN trace["r1"].updateArg = {"leetcode", "codechef"}
    /\ response["r1"].status = 500

\* C5: the merge and the write happen only when every started call has
\* settled; while a call is pending the handler waits at the join, has sent
\* nothing and written nothing, whatever the other calls did, and the pending
\* call can still settle.
C5_JoinWaitsForAll ==
    \A r \in Requests :
        IsRefresh(r) =>
            /\ trace[r].updates > 0 =>
                   (Unsettled(calls[r]) = {} /\ trace[r].pendingAtJoin = {})
            /\ \A p \in Platforms :
                   calls[r][p].state = "pending" =>
                       /\ pc[r] = "joining"
                       /\ response[r].sent = 0
                       /\ trace[r].updates = 0
                       /\ ENABLED AdapterSettles(r, p)

\* the first call to settle was rejected, the others settled after it, one of
\* them with a record, and the merge was then made
C5_Witness ==
    /\ pc["r1"] = "writing"
    /\ Len(completion["r1"]) = 3
    /\ calls["r1"][completion["r1"][1]].state = "rejected"
    /\ calls["r1"][completion["r1"][3]].state = "fulfilled"
    /\ completion["r1"][3] \in DOMAIN newStats["r1"]

\* the refresh request r was answered without touching the profile or
\* starting an adapter call
NoProfileAccess(r) ==
    /\ trace[r].reads = 0
    /\ trace[r].snapshot = "none"
    /\ Started(calls[r]) = {}
    /\ trace[r].updates = 0
    /\ store.statsLastUpdatedAt = 0

\* the Authorization header is present and starts with 'Bearer '
BearerHeader(h) == h # <<>> /\ Head(h) = "Bearer "

\* the header carries the credential that verification accepts
ValidCredential(h) == h = <<"Bearer ", "good">>

\* C6 as stated: every refresh request whose Authorization header is absent
\* or does not start with 'Bearer ' is answered 401, every one whose
\* credential fails verification 403, and neither touches the profile.
C6_AsStated ==
    \A r \in Requests :
        (IsRefresh(r) /\ pc[r] = "done") =>
            /\ ~BearerHeader(req[r].authorization) =>
                   (response[r].status = 401 /\ NoProfileAccess(r))
            /\ (/\ BearerHeader(req[r].authorization)
                /\ ~ValidCredential(req[r].authorization)) =>
                   (response[r].status = 403 /\ NoProfileAccess(r))

\* C6, amended: a POST refresh request whose Authorization header is absent
\* or does not start with 'Bearer ' is answered 401, and one whose credential
\* fails verification 403; neither reads the profile, starts an adapter call
\* or writes the profile.  A request of another method is answered 405.
C6_PostAuthErrors ==
    \A r \in Requests :
        (IsRefresh(r) /\ pc[r] = "done") =>
            /\ (req[r].method = "POST" /\ ~BearerHeader(req[r].authorization)) =>
                   (response[r].status = 401 /\ NoProfileAccess(r))
            /\ (/\ req[r].method = "POST"
                /\ BearerHeader(req[r].authorization)
                /\ ~ValidCredential(req[r].authorization)) =>
                   (response[r].status = 403 /\ NoProfileAccess(r))
            /\ req[r].method # "POST" =>
                   (response[r].status = 405 /\ NoProfileAccess(r))

\* a POST with a header of another scheme, answered 401
C6_Witness ==
    /\ pc["r1"] = "done"
    /\ req["r1"].method = "POST"
    /\ req["r1"].authorization = <<"Basic ", "good">>
    /\ response["r1"].status = 401

\* C7: a refresh request with a verified identity whose profile document does
\* not exist is answered 404, starts no adapter call and writes nothing.
C7_NotFoundIs404 ==
    \A r \in Requests :
        (/\ IsRefresh(r)
         /\ pc[r] = "done"
         /\ decodedUid[r] # ""
         /\ trace[r].snapshot # "rejected"
         /\ ~store.exists) =>
            /\ response[r].status = 404
            /\ Started(calls[r]) = {}
            /\ trace[r].updates = 0

\* C8: an adapter call is started for platform p exactly when the loaded
\* profile has a truthy username for p, and none is started without a loaded
\* profile; with no platform configured no call is started, the aggregate is
\* empty, the write is still made with it, and a write that succeeds is
\* answered 200 success.
C8_FanOutConfigured ==
    \A r \in Requests :
        IsRefresh(r) =>
            /\ trace[r].snapshot # "found" => Started(calls[r]) = {}
            /\ trace[r].snapshot = "found" =>
                   /\ userData[r] = store.usernames
                   /\ Started(calls[r]) = Configured(r)
                   /\ Configured(r) = {} =>
                          /\ completion[r] = <<>>
                          /\ trace[r].updates > 0 => trace[r].updateArg = EmptyObj
                          /\ pc[r] = "done" =>
                                 /\ trace[r].updates = 1
                                 /\ trace[r].updateResult = "ok" =>
                                        /\ response[r].status = 200
                                        /\ response[r].kind = "success"
                                        /\ store.stats = EmptyObj

\* a profile whose usernames are empty or missing: nothing started, the empty
\* aggregate stored, 200 answered
C8_Witness ==
    /\ pc["r1"] = "done"
    /\ userData["r1"]["leetcode"] = ""
    /\ userData["r1"]["gfg"] = Undefined
    /\ Configured("r1") = {}
    /\ store.statsLastUpdatedAt = 1
    /\ store.stats = EmptyObj
    /\ response["r1"].status = 200

\* the steps of the refresh workflow in their causal order
CausalOrder ==
    <<"authenticate", "load", "fanout", "join", "merge", "persist", "respond">>

\* C11: the steps a refresh request has taken are an initial part of
\* authenticate, load, fan-out, join, merge, persist, closed by the one
\* response: the profile is read at most once, only for a verified credential
\* and before any adapter call is started; it is written at most once, with the
\* merged aggregate and after every started call has settled; a handler that
\* has finished has sent exactly one response and one that has not has sent
\* none and can still take a step.
C11_CausalOrder ==
    \A r \in Requests :
        IsRefresh(r) =>
            LET steps == trace[r].steps
            IN  /\ \E k \in 0..6 :
                       \/ steps = SubSeq(CausalOrder, 1, k)
                       \/ steps = Append(SubSeq(CausalOrder, 1, k), "respond")
                /\ trace[r].reads <= 1
                /\ trace[r].reads = 1 <=> "load" \in Range(steps)
                /\ "load" \in Range(steps) =>
                       (req[r].method = "POST" /\ ValidCredential(req[r].authorization))
                /\ Started(calls[r]) # {} =>
                       (trace[r].reads = 1 /\ "fanout" \in Range(steps))
                /\ trace[r].updates <= 1
                /\ trace[r].updates = 1 <=> "persist" \in Range(steps)
                /\ trace[r].updates = 1 =>
                       (trace[r].updateArg = newStats[r] /\ Unsettled(calls[r]) = {})
                /\ store.statsLastUpdatedAt <= 1
                /\ store.statsLastUpdatedAt = 1 => trace[r].updateResult = "ok"
                /\ response[r].sent <= 1
                /\ response[r].sent = 1 <=> pc[r] = "done"
                /\ response[r].sent = 1 <=> "respond" \in Range(steps)
                /\ pc[r] # "done" => ENABLED Next

\* a request that went through all seven steps and was answered 200
C11_Witness ==
    /\ trace["r1"].steps = CausalOrder
    /\ Len(completion["r1"]) = 2
    /\ response["r1"].sent = 1
    /\ response["r1"].status = 200

\* the started calls of r that failed: rejected, or fulfilled with null
Failed(r) ==
    {p \in Started(calls[r]) : calls[r][p].state = "rejected" \/ calls[r][p].isNull}

\* C12: once the merge is done, every adapter outcome that is a failure (a
\* rejected call, or a call that produced no record) was skipped, so it has no
\* key in the aggregate, and a diagnostic about it was written to the error
\* channel (by the merge, or by the adapter before it).
C12_FailuresDiagnosed ==
    \A r \in Requests :
        (IsRefresh(r) /\ trace[r].updates > 0) =>
            \A p \in Failed(r) :
                /\ p \notin DOMAIN trace[r].updateArg
                /\ p \in trace[r].adapterErrors \cup trace[r].mergeErrors

\* C13: a refresh whose write succeeded has replaced the stored stats by the
\* new aggregate: the stored stats equal the aggregate, and a platform whose
\* call failed in this refresh, or that is not configured, has no entry in
\* them, whatever was stored before.
C13_StatsReplaced ==
    \A r \in Requests :
        (IsRefresh(r) /\ trace[r].updateResult = "ok") =>
            /\ store.stats = trace[r].updateArg
            /\ \A p \in Platforms :
                   (p \in Failed(r) \/ p \notin Configured(r)) => p \notin DOMAIN store.stats
            /\ \A p \in DOMAIN store.stats : store.stats[p] # "old"

\* stats of all four platforms were stored before; in this refresh CodeChef
\* failed and GfG is no longer configured: only the LeetCode entry is stored
C13_Witness ==
    /\ trace["r1"].updateResult = "ok"
    /\ trace["r1"].statsBefore = OldStats
    /\ calls["r1"]["codechef"].state = "rejected"
    /\ userData["r1"]["gfg"] = ""
    /\ userData["r1"]["hackerrank"] = Undefined
    /\ DOMAIN store.stats = {"leetcode"}

\* C14: when two concurrent refresh requests of the same identity have both
\* written, their writes were applied one after the other and the stored stats
\* are the complete aggregate of the request whose write was applied last,
\* not a mixture of the entries of the two aggregates.
C14_LastWriteWins ==
    \A a \in Requests : \A b \in Requests \ {a} :
        (trace[a].updateResult = "ok" /\ trace[b].updateResult = "ok") =>
            /\ trace[a].writtenAt # trace[b].writtenAt
            /\ store.statsLastUpdatedAt = 2
            /\ trace[a].writtenAt < trace[b].writtenAt =>
                   store.stats = trace[b].updateArg

\* the two requests read the same profile and built different aggregates
\* (LeetCode only, CodeChef only); r2 wrote first, r1 last: only r1's entry
\* is stored
C14_Witness ==
    /\ trace["r1"].updateResult = "ok" /\ trace["r2"].updateResult = "ok"
    /\ DOMAIN trace["r1"].updateArg = {"leetcode"}
    /\ DOMAIN trace["r2"].updateArg = {"codechef"}
    /\ trace["r2"].writtenAt = 1 /\ trace["r1"].writtenAt = 2
    /\ DOMAIN store.stats = {"leetcode"}

-----------------------------------------------------------------------------
(* Properties of the single lookup *)

\* the platform parameter names a supported platform (the handler compares it
\* in lower case)
Supported(q) == q.type = "string" /\ ToLowerCase(q.s) \in Platforms

\* C9: a lookup in which platform or username is missing, or in which
\* platform is not one of the supported platforms, is answered 400 and no
\* adapter is called.
C9_BadRequestIs400 ==
    \A r \in Requests :
        (/\ IsLookup(r)
         /\ pc[r] = "done"
         /\ \/ ~QueryTruthy(req[r].platform)
            \/ ~QueryTruthy(req[r].username)
            \/ ~Supported(req[r].platform)) =>
            /\ response[r].status = 400
            /\ trace[r].netCalls = 0
            /\ Started(calls[r]) = {}

\* the upstream answers that the claim counts as a failure of p's adapter
LookupFailures(p) ==
    CASE p = "leetcode" -> {"netError", "errors", "malformed"}
      [] p = "gfg"      -> {"netError", "badJson"}
      [] OTHER          -> {"netError"}

\* C10 as stated: whenever the invoked adapter meets a network error, a parse
\* exception or (LeetCode) an error payload, the lookup is answered 500 and
\* never 200 with a record.
C10_AsStated ==
    \A r \in Requests : \A p \in Platforms :
        (/\ IsLookup(r)
         /\ pc[r] = "done"
         /\ calls[r][p].up \in LookupFailures(p)) =>
            /\ response[r].status = 500
            /\ response[r].kind = "error"

\* C10, amended: whenever the invoked adapter throws (a network error, or for
\* LeetCode an error payload or a payload without the user) the lookup is
\* answered 500 with an error and no record and no caching header; the parse
\* exception that the GfG adapter catches itself does not fail the call, and
\* the lookup is answered 200 with the difficulty counts left at zero.
C10_ThrownFailureIs500 ==
    \A r \in Requests : \A p \in Platforms :
        (IsLookup(r) /\ pc[r] = "done" /\ calls[r][p].state # "none") =>
            /\ (calls[r][p].up \in LookupFailures(p) /\ ~(p = "gfg" /\ calls[r][p].up = "badJson")) =>
                   /\ response[r].status = 500
                   /\ response[r].kind = "error"
                   /\ response[r].data = EmptyObj
                   /\ ~response[r].cache
            /\ (p = "gfg" /\ calls[r][p].up = "badJson") =>
                   /\ response[r].status = 200
                   /\ response[r].data = GfgFlat("scraped", "zero")

\* a LeetCode lookup that met an error payload, answered 500
C10_Witness ==
    /\ pc["r1"] = "done"
    /\ req["r1"].platform = QString("LeetCode")
    /\ calls["r1"]["leetcode"].up = "errors"
    /\ calls["r1"]["leetcode"].state = "rejected"
    /\ response["r1"].status = 500

====
